---- MODULE Spec2Model ----
(***************************************************************************)
(* Model of the tile server: the request handler (request_handler.rs), the *)
(* blocking pool it dispatches to (main.rs builds the runtime), the        *)
(* per-thread cached Dataset, and the window resolver / band compositor    *)
(* read_rgba_from_gdal (gdal_reader.rs).                                   *)
(*                                                                         *)
(* Strings are sequences of one-character strings, so that the handler's   *)
(* parsing (splitn, get(1..), parse::<u32>, the extension match) is        *)
(* computed the way the code computes it.                                  *)
(***************************************************************************)
EXTENDS Integers, Sequences, FiniteSets, TLC

\* ------------------------------------------------------------------ bounds
\* Number of requests the environment sends.
NReq == 3
\* Cap on the blocking threads of the pool.  main.rs:136 configures 24; the
\* model keeps the cap small so that "all workers busy" is reached.
MaxBlockingThreads == 2

VARIABLES
    incoming,           \* the request hyper hands to handle_request, or NoRequest
    nextReq,            \* id of the next request to arrive
    req,                \* per request: where it is, what the closure captured, the response
    queue,              \* the blocking pool's FIFO of spawned closures (request ids)
    running,            \* per blocking thread: the request whose closure it runs, 0 when idle
    THREAD_LOCAL_DATA,  \* per thread-local slot: the cached Dataset handle, 0 for None
    ds,                 \* per blocking thread: the handle read_rgba_from_gdal is running against, 0 if none
    openedBy,           \* per Dataset handle instance: the thread whose Dataset::open made it
    openCalls,          \* per blocking thread: number of Dataset::open calls it made
    lastRead            \* per blocking thread: how the last read_rgba_from_gdal on it ended

poolVars == <<incoming, nextReq, req, queue, running, THREAD_LOCAL_DATA, ds,
              openedBy, openCalls, lastRead>>

\* One call of read_rgba_from_gdal, step by step.
VARIABLES
    dataset,        \* the raster behind the handle: band count, size, geotransform, content
    result_bbox,    \* argument: the requested box
    size,           \* argument: the output size <<size.0, size.1>>
    background,     \* argument: Alpha or Rgb(r, g, b)
    pc,             \* where the call is: idle, start, geo, alpha, band, premultiply, done
    band_index,     \* the band loop's index
    alpha_band,     \* Some(buffer of band 4) as a sequence, <<>> before it is read
    result_data,    \* the output buffer
    log,            \* the backend calls issued so far, in order
    result          \* none, Ok, BandCountError, GdalError or Panic

readVars == <<dataset, result_bbox, size, background, pc, band_index, alpha_band,
              result_data, log, result>>

\* ----------------------------------------------------------------- strings
Str_jpg  == <<"j", "p", "g">>
Str_jpeg == <<"j", "p", "e", "g">>
Str_webp == <<"w", "e", "b", "p">>
Str_png  == <<"p", "n", "g">>

\* First position of ch in s, 0 when absent.
IndexOf(s, ch) ==
    IF \E i \in 1..Len(s) : s[i] = ch
    THEN CHOOSE i \in 1..Len(s) : s[i] = ch /\ \A j \in 1..(i - 1) : s[j] # ch
    ELSE 0

\* str::splitn(n, ch): at most n pieces, the last one holds the remainder.
RECURSIVE splitn(_, _, _)
splitn(s, n, ch) ==
    IF n <= 0 THEN <<>>
    ELSE IF n = 1 \/ IndexOf(s, ch) = 0 THEN <<s>>
    ELSE <<SubSeq(s, 1, IndexOf(s, ch) - 1)>>
             \o splitn(SubSeq(s, IndexOf(s, ch) + 1, Len(s)), n - 1, ch)

DigitVal(c) ==
    CASE c = "0" -> 0 [] c = "1" -> 1 [] c = "2" -> 2 [] c = "3" -> 3
      [] c = "4" -> 4 [] c = "5" -> 5 [] c = "6" -> 6 [] c = "7" -> 7
      [] c = "8" -> 8 [] c = "9" -> 9 [] OTHER -> -1

HexVal(c) ==
    CASE DigitVal(c) >= 0 -> DigitVal(c)
      [] c \in {"a", "A"} -> 10 [] c \in {"b", "B"} -> 11 [] c \in {"c", "C"} -> 12
      [] c \in {"d", "D"} -> 13 [] c \in {"e", "E"} -> 14 [] c \in {"f", "F"} -> 15
      [] OTHER -> -1

RECURSIVE DecValue(_, _)
DecValue(s, acc) ==
    IF s = <<>> THEN acc ELSE DecValue(Tail(s), acc * 10 + DigitVal(Head(s)))

\* str::parse::<u32>(): an optional '+', then one or more decimal digits.
\* -1 stands for Err.  The numbers the model sends have one or two digits, so
\* the overflow error of values above u32::MAX is not part of the model.
parse_u32(s) ==
    LET body == IF s # <<>> /\ Head(s) = "+" THEN Tail(s) ELSE s
    IN  IF body = <<>> \/ \E i \in 1..Len(body) : DigitVal(body[i]) < 0 THEN -1
        ELSE DecValue(body, 0)

\* str::parse::<f32>() on the option values the model sends: decimal digit
\* strings parse, a string of letters other than inf/nan does not.
parse_f32(s) ==
    IF s # <<>> /\ \A i \in 1..Len(s) : DigitVal(s[i]) >= 0 THEN DecValue(s, 0) ELSE -1

\* u8::from_str_radix(chunk, 16) for a two-character chunk; -1 stands for Err.
from_str_radix_16(c1, c2) ==
    IF c1 = "+" THEN HexVal(c2)
    ELSE IF HexVal(c1) < 0 \/ HexVal(c2) < 0 THEN -1
    ELSE 16 * HexVal(c1) + HexVal(c2)

Alpha == [kind |-> "Alpha"]
Rgb(r, g, b) == [kind |-> "Rgb", r |-> r, g |-> g, b |-> b]
BackgroundError == [kind |-> "BackgroundError"]

\* impl TryFrom<Cow<str>> for Background
Background_try_from(value) ==
    IF Len(value) # 6 THEN BackgroundError
    ELSE LET r == from_str_radix_16(value[1], value[2])
             g == from_str_radix_16(value[3], value[4])
             b == from_str_radix_16(value[5], value[6])
         IN  IF r < 0 \/ g < 0 \/ b < 0 THEN BackgroundError ELSE Rgb(r, g, b)

\* impl TryFrom<&str> for ImageType
ImageType_try_from(value) ==
    IF value = Str_jpg \/ value = Str_jpeg THEN "Jpeg"
    ELSE IF value = Str_webp THEN "Webp"
    ELSE "Err"

\* ------------------------------------------------------------ HTTP requests
METHOD_NOT_ALLOWED == "405"
BAD_REQUEST == "400"
NOT_FOUND == "404"
INTERNAL_SERVER_ERROR == "500"
OK == "200"
\* The handler panicked: the connection task dies and no response is written.
HandlerPanic == "panic"
NoResponse == "none"
NoRequest == [method |-> "none", absolute |-> FALSE, query |-> <<>>, path |-> <<>>]

\* Tile paths the environment sends, as url.path() returns them.
Slash(a, b, c) == <<"/">> \o a \o <<"/">> \o b \o <<"/">> \o c
Path_jpg     == Slash(<<"1">>, <<"2">>, <<"3">>) \o <<".">> \o Str_jpg
Path_jpeg    == Slash(<<"1">>, <<"2">>, <<"3">>) \o <<".">> \o Str_jpeg
Path_webp    == Slash(<<"1">>, <<"0">>, <<"1">>) \o <<".">> \o Str_webp
Path_png     == Slash(<<"1">>, <<"2">>, <<"3">>) \o <<".">> \o Str_png
Path_noext   == Slash(<<"1">>, <<"2">>, <<"3">>)
Path_nan     == Slash(<<"1">>, <<"a">>, <<"3">>) \o <<".">> \o Str_jpg
Path_short   == <<"/", "1", "/", "2", ".">> \o Str_jpg
Path_long    == Slash(<<"1">>, <<"2">>, <<"3">>) \o <<"/", "4", ".">> \o Str_jpg
Path_twodots == Slash(<<"1">>, <<"2">>, <<"3">>) \o <<".", "5", ".">> \o Str_jpg
Path_root    == <<"/">>

Paths == {Path_jpg, Path_jpeg, Path_webp, Path_png, Path_noext, Path_nan,
          Path_short, Path_long, Path_twodots, Path_root}

\* Query strings, as url.query_pairs() yields them: (key, value) pairs.
Pair(k, v) == [key |-> k, value |-> v]
Queries ==
    { <<>>,
      <<Pair("bg", <<"f", "f", "0", "0", "8", "0">>)>>,
      <<Pair("background", <<"f", "f", "0">>)>>,
      <<Pair("q", <<"9", "0">>), Pair("size", <<"x">>)>>,
      <<Pair("quality", <<"x">>)>>,
      <<Pair("other", <<"x">>), Pair("size", <<"2">>)>> }

\* Requests the environment sends.  absolute: the request target is an absolute
\* URL (Url::parse accepts it); an origin-form target ("/1/2/3.jpg") is a
\* relative URL.
Requests ==
    [method : {"GET"}, absolute : {TRUE}, query : Queries, path : Paths]
        \cup [method : {"GET", "POST"}, absolute : BOOLEAN, query : {<<>>},
              path : {Path_jpg, Path_png}]

\* The requests sent to the pool's specification: a closure with an encoder,
\* a closure without one (no extension), and a request the handler answers
\* by itself.  RouterSpec sends every request of Requests.
PoolRequests ==
    [method : {"GET"}, absolute : {TRUE}, query : {<<>>},
     path : {Path_jpg, Path_noext, Path_png}]

\* The option defaults of handle_request and the loop over url.query_pairs():
\* the options after the pairs, err set at the first value that does not parse.
DefaultOptions == [err |-> FALSE, size |-> 256, quality |-> 75, background |-> Alpha]

RECURSIVE query_pairs(_, _)
query_pairs(pairs, opts) ==
    IF pairs = <<>> THEN opts
    ELSE LET k == Head(pairs).key
             v == Head(pairs).value
         IN  IF k \in {"background", "bg"}
             THEN IF Background_try_from(v) = BackgroundError THEN [opts EXCEPT !.err = TRUE]
                  ELSE query_pairs(Tail(pairs),
                                   [opts EXCEPT !.background = Background_try_from(v)])
             ELSE IF k \in {"quality", "q"}
             THEN IF parse_f32(v) < 0 THEN [opts EXCEPT !.err = TRUE]
                  ELSE query_pairs(Tail(pairs), [opts EXCEPT !.quality = parse_f32(v)])
             ELSE IF k = "size"
             THEN IF parse_u32(v) < 0 THEN [opts EXCEPT !.err = TRUE]
                  ELSE query_pairs(Tail(pairs), [opts EXCEPT !.size = parse_u32(v)])
             ELSE query_pairs(Tail(pairs), opts)

\* let ext = parts.get(1).map(try_into).transpose(): "None" without a '.',
\* "Err" for an unsupported extension.
path_ext(path) ==
    LET parts == splitn(path, 2, ".")
    IN  IF Len(parts) < 2 THEN "None" ELSE ImageType_try_from(parts[2])

\* parts.get(0).get(1..).splitn(3, '/').map(parse::<u32>().ok())
path_numbers(path) ==
    LET stem  == splitn(path, 2, ".")[1]
        rest  == IF Len(stem) >= 1 THEN SubSeq(stem, 2, Len(stem)) ELSE <<>>
        parts == splitn(rest, 3, "/")
    IN  [i \in 1..Len(parts) |-> parse_u32(parts[i])]

\* The match on (parts.get(0), parts.get(1), parts.get(2)) with its guard.
tile_address_ok(nums) ==
    /\ Len(nums) = 3
    /\ nums[1] >= 0 /\ nums[2] >= 0 /\ nums[3] >= 0

Respond(sc) == [kind |-> "respond", status |-> sc]
Dispatch(ext, opts) == [kind |-> "dispatch", ext |-> ext, opts |-> opts]

\* The part of handle_request that runs before spawn_blocking: what it
\* answers at once, or what it hands to the pool.
handle_request(r) ==
    IF r.method # "GET" THEN Respond(METHOD_NOT_ALLOWED)
    ELSE IF ~r.absolute THEN Respond(HandlerPanic)
    ELSE IF query_pairs(r.query, DefaultOptions).err THEN Respond(BAD_REQUEST)
    ELSE IF path_ext(r.path) = "Err" THEN Respond(NOT_FOUND)
    ELSE IF tile_address_ok(path_numbers(r.path))
         THEN Dispatch(path_ext(r.path), query_pairs(r.query, DefaultOptions))
    ELSE Respond(NOT_FOUND)

\* -------------------------------------------------------- the blocking pool
Threads == 1..Len(running)
IdleThreads == {w \in Threads : running[w] = 0}

\* thread_local! { static THREAD_LOCAL_DATA }: every thread has a slot of its own.
ThreadLocalSlotShared(w) == 1
ThreadLocalSlot(w) == w

\* Builder::max_blocking_threads: a thread is spawned for a task only below the cap.
CanSpawnThreadNoCap(n) == n <= MaxBlockingThreads
CanSpawnThread(n) == n < MaxBlockingThreads

\* Option::get_or_insert_with: the closure (Dataset::open) runs only for None.
NeedsOpenAlways(data) == TRUE
NeedsOpen(data) == data = 0

\* How read_rgba_from_gdal can end for the closure: Ok, one of the two
\* ReadError variants, or a panic (an index out of bounds) that unwinds.
ReadOutcomes == {"Ok", "BandCountError", "GdalError", "Panic"}

NewRequest == [st |-> "new", ext |-> "None", resp |-> NoResponse, waited |-> FALSE]

PoolInit ==
    /\ incoming = NoRequest
    /\ nextReq = 1
    /\ req = [r \in 1..NReq |-> NewRequest]
    /\ queue = <<>>
    /\ running = <<>>
    /\ THREAD_LOCAL_DATA = <<>>
    /\ ds = <<>>
    /\ openedBy = <<>>
    /\ openCalls = <<>>
    /\ lastRead = <<>>

\* A request arrives on a connection.
Arrive(r) ==
    /\ incoming = NoRequest
    /\ nextReq <= NReq
    /\ incoming' = r
    /\ UNCHANGED <<nextReq, req, queue, running, THREAD_LOCAL_DATA, ds, openedBy,
                   openCalls, lastRead>>
    /\ UNCHANGED readVars

\* pool.spawn_blocking(closure): the closure is queued; an idle thread not yet
\* claimed by a queued closure is notified, else a thread is spawned if the
\* cap allows, else the closure waits in the queue.
spawn_blocking(id, ext) ==
    LET idle  == Cardinality(IdleThreads) > Len(queue)
        spawn == ~idle /\ CanSpawnThread(Len(running))
    IN  /\ queue' = Append(queue, id)
        /\ req' = [req EXCEPT ![id] = [st |-> "queued", ext |-> ext, resp |-> NoResponse,
                                       waited |-> ~idle /\ ~spawn]]
        /\ IF spawn
           THEN /\ running' = Append(running, 0)
                /\ THREAD_LOCAL_DATA' = Append(THREAD_LOCAL_DATA, 0)
                /\ ds' = Append(ds, 0)
                /\ openCalls' = Append(openCalls, 0)
                /\ lastRead' = Append(lastRead, "none")
           ELSE UNCHANGED <<running, THREAD_LOCAL_DATA, ds, openCalls, lastRead>>
        /\ UNCHANGED openedBy

\* handle_request up to its await: answer at once or dispatch to the pool.
HandleRequest ==
    /\ UNCHANGED readVars
    /\ incoming # NoRequest
    /\ incoming' = NoRequest
    /\ nextReq' = nextReq + 1
    /\ LET out == handle_request(incoming)
       IN  IF out.kind = "dispatch"
           THEN spawn_blocking(nextReq, out.ext)
           ELSE /\ req' = [req EXCEPT ![nextReq] = [st |-> "done", ext |-> "None",
                                                    resp |-> out.status, waited |-> FALSE]]
                /\ UNCHANGED <<queue, running, THREAD_LOCAL_DATA, ds, openedBy,
                               openCalls, lastRead>>

\* A blocking thread takes the oldest closure and runs it up to the call of
\* read_rgba_from_gdal: THREAD_LOCAL_DATA.with, borrow_mut, get_or_insert_with.
\* A failed Dataset::open panics in expect(): the slot stays None, the task
\* ends with a JoinError (mapped to 500 by the handler) and the thread lives on.
StartTask(w) ==
    /\ w \in IdleThreads
    /\ queue # <<>>
    /\ queue' = Tail(queue)
    /\ LET id   == Head(queue)
           slot == ThreadLocalSlot(w)
       IN  IF NeedsOpen(THREAD_LOCAL_DATA[slot])
           THEN /\ openCalls' = [openCalls EXCEPT ![w] = @ + 1]
                /\ \/ /\ openedBy' = Append(openedBy, w)
                      /\ THREAD_LOCAL_DATA' =
                             [THREAD_LOCAL_DATA EXCEPT ![slot] = Len(openedBy) + 1]
                      /\ ds' = [ds EXCEPT ![w] = Len(openedBy) + 1]
                      /\ running' = [running EXCEPT ![w] = id]
                      /\ req' = [req EXCEPT ![id].st = "running"]
                   \/ /\ req' = [req EXCEPT ![id].st = "done", ![id].ext = "None",
                                            ![id].resp = INTERNAL_SERVER_ERROR]
                      /\ UNCHANGED <<openedBy, THREAD_LOCAL_DATA, ds, running>>
           ELSE /\ ds' = [ds EXCEPT ![w] = THREAD_LOCAL_DATA[slot]]
                /\ running' = [running EXCEPT ![w] = id]
                /\ req' = [req EXCEPT ![id].st = "running"]
                /\ UNCHANGED <<openedBy, THREAD_LOCAL_DATA, openCalls>>
    /\ UNCHANGED <<incoming, nextReq, lastRead>>
    /\ UNCHANGED readVars

\* The response the handler builds from what the closure returned.
response_of(outcome, ext, encoded) ==
    IF outcome # "Ok" THEN INTERNAL_SERVER_ERROR
    ELSE IF ext = "None" THEN NOT_FOUND
    ELSE IF encoded THEN OK
    ELSE INTERNAL_SERVER_ERROR

\* The rest of the closure: read_rgba_from_gdal against the cached handle,
\* then the encoder chosen by ext; the awaiting handler maps the result to a
\* response.  The handle stays in the slot whatever the outcome.
FinishTask(w) ==
    /\ w \in Threads
    /\ running[w] # 0
    /\ \E outcome \in ReadOutcomes, encoded \in BOOLEAN :
          /\ req' = [req EXCEPT ![running[w]].st = "done",
                                ![running[w]].ext = "None",
                                ![running[w]].resp =
                                    response_of(outcome, req[running[w]].ext, encoded)]
          /\ lastRead' = [lastRead EXCEPT ![w] = IF outcome = "Ok" THEN "ok" ELSE "err"]
    /\ running' = [running EXCEPT ![w] = 0]
    /\ ds' = [ds EXCEPT ![w] = 0]
    /\ UNCHANGED <<incoming, nextReq, queue, THREAD_LOCAL_DATA, openedBy, openCalls>>
    /\ UNCHANGED readVars

\* No call of read_rgba_from_gdal is being followed.
ReadIdle ==
    /\ dataset = [raster_count |-> 0, raster_size |-> <<0, 0>>,
                  geo_transform |-> <<0, 1, 0, 0, 0, -1>>, mask |-> 0]
    /\ result_bbox = [min_x |-> 0, min_y |-> 0, max_x |-> 0, max_y |-> 0]
    /\ size = <<0, 0>>
    /\ background = Alpha
    /\ pc = "idle"
    /\ band_index = 0
    /\ alpha_band = <<>>
    /\ result_data = <<>>
    /\ log = <<>>
    /\ result = "none"

Init == PoolInit /\ ReadIdle

Next ==
    \/ \E r \in PoolRequests : Arrive(r)
    \/ HandleRequest
    \/ \E w \in 1..MaxBlockingThreads : StartTask(w)
    \/ \E w \in 1..MaxBlockingThreads : FinishTask(w)

vars == <<poolVars, readVars>>

Spec == Init /\ [][Next]_vars

\* The same system under every kind of request.
RouterNext ==
    \/ \E r \in Requests : Arrive(r)
    \/ HandleRequest
    \/ \E w \in 1..MaxBlockingThreads : StartTask(w)
    \/ \E w \in 1..MaxBlockingThreads : FinishTask(w)

RouterSpec == Init /\ [][RouterNext]_vars

\* Every blocking thread is an OS thread: one that can take a closure takes
\* it, and a closure that runs returns (or unwinds).
FairSpec ==
    /\ Spec
    /\ \A w \in 1..MaxBlockingThreads : WF_vars(StartTask(w)) /\ WF_vars(FinishTask(w))

\* ------------------------------------------------------------------ claims
RunningRequests == {r \in 1..NReq : req[r].st = "running"}
AllThreadsBusy == Len(running) = MaxBlockingThreads /\ IdleThreads = {}

\* C1: no two tasks execute read_rgba_from_gdal against the same Dataset
\* handle instance at the same time; the handle a task reads from was opened
\* by the thread that runs the task; a request runs on exactly one thread and
\* a thread runs one request at a time.
C1_HandleExclusive ==
    /\ \A w1, w2 \in Threads : (w1 # w2 /\ ds[w1] # 0) => ds[w1] # ds[w2]
    /\ \A w \in Threads : ds[w] # 0 => openedBy[ds[w]] = w
    /\ \A w \in Threads : (ds[w] # 0) <=> (running[w] # 0)
    /\ \A r \in RunningRequests : Cardinality({w \in Threads : running[w] = r}) = 1

\* Two threads read at the same time, each from a handle of its own.
C1_Witness ==
    \E w1, w2 \in Threads : w1 # w2 /\ ds[w1] # 0 /\ ds[w2] # 0

TakesTask(w) ==
    /\ w \in Threads /\ running[w] = 0
    /\ queue # <<>> /\ queue' = Tail(queue)
    /\ (running'[w] # 0 \/ openCalls'[w] # openCalls[w])

\* C3: a failed open or read stays within its request: the thread lives on
\* with an empty slot after a failed open, so that its next task opens again;
\* and a thread whose last read on the cached handle failed opens the raster
\* again when it takes its next task.
C3_Claim ==
    [][\A w \in Threads :
          /\ (openCalls'[w] # openCalls[w] /\ running'[w] = 0)
                 => (THREAD_LOCAL_DATA'[w] = 0 /\ w \in Threads)
          /\ (TakesTask(w) /\ THREAD_LOCAL_DATA[w] = 0)
                 => openCalls'[w] = openCalls[w] + 1
          /\ (TakesTask(w) /\ lastRead[w] = "err")
                 => openCalls'[w] = openCalls[w] + 1]_vars

\* C4: never more running tasks, nor more threads, than the cap; a closure
\* spawned while every thread of a full pool is busy is appended to the queue,
\* no thread is added or disturbed; every dispatched request is queued, and
\* every queued request is eventually done with a response.
C4_BoundedPool ==
    /\ [](/\ Cardinality(RunningRequests) <= MaxBlockingThreads
          /\ Len(running) <= MaxBlockingThreads)
    /\ [][(incoming # NoRequest /\ incoming' = NoRequest
              /\ handle_request(incoming).kind = "dispatch")
            => /\ queue' = Append(queue, nextReq)
               /\ req'[nextReq].resp = NoResponse
               /\ AllThreadsBusy => running' = running]_vars
    /\ \A r \in 1..NReq :
          (req[r].st = "queued") ~> (req[r].st = "done" /\ req[r].resp # NoResponse)

\* A request that was spawned while all threads were busy got its response.
C4_Witness ==
    \E r \in 1..NReq : req[r].waited /\ req[r].st = "done" /\ req[r].resp # NoResponse

\* Paths with a numeric zoom, column and row and one of the extensions jpg,
\* jpeg, webp.
TilePaths == {Path_jpg, Path_jpeg, Path_webp}

\* C9: a GET request with well-formed options whose path has another
\* extension, no extension, or a non-numeric zoom/col/row is answered 404 by
\* the handler itself: nothing is spawned on the pool for it.
C9_Claim ==
    [][(/\ incoming # NoRequest /\ incoming' = NoRequest
        /\ incoming.method = "GET" /\ incoming.absolute
        /\ ~query_pairs(incoming.query, DefaultOptions).err
        /\ incoming.path \notin TilePaths)
       => (req'[nextReq].resp = NOT_FOUND /\ queue' = queue)]_vars


\* ------------------------------------------------------ read_rgba_from_gdal
\* Bounds of the inputs of a call.
MaxSize == 2
Margin == 2
PremultiplyStride == 3

Max(a, b) == IF a >= b THEN a ELSE b
Min(a, b) == IF a <= b THEN a ELSE b
Abs(a) == IF a < 0 THEN 0 - a ELSE a

\* (n / d).round(): f64::round rounds half away from zero.  n and d are small
\* integers, for which the f64 quotient lies on the same side of every
\* half-integer as the exact one.
round_div(n, d) ==
    LET q == (2 * Abs(n) + Abs(d)) \div (2 * Abs(d))
    IN  IF (n < 0) = (d < 0) THEN q ELSE 0 - q

\* A reader that takes the requested size for the size of the data it read,
\* whatever part of the window the raster covers.
scale_unclamped(s, a, w) == s

\* (s as f64 * (a as f64 / w as f64)) as usize for 0 <= a <= w: the cast
\* truncates.  With w = 0 the clamped size a is 0 as well, 0.0 / 0.0 is NaN
\* and NaN as usize is 0.  For the sizes of the model the f64 result is the
\* integer quotient.
scale_as_usize(s, a, w) == IF w = 0 THEN 0 ELSE (s * a) \div w

gt_x_off == dataset.geo_transform[1]
gt_x_width == dataset.geo_transform[2]
gt_y_off == dataset.geo_transform[4]
gt_y_width == dataset.geo_transform[6]
raster_width == dataset.raster_size[1]
raster_height == dataset.raster_size[2]

pixel_min_x == round_div(result_bbox.min_x - gt_x_off, gt_x_width)
pixel_max_x == round_div(result_bbox.max_x - gt_x_off, gt_x_width)
pixel_max_y == round_div(result_bbox.min_y - gt_y_off, gt_y_width)
pixel_min_y == round_div(result_bbox.max_y - gt_y_off, gt_y_width)

window_x == pixel_min_x
window_y == pixel_min_y
source_width == pixel_max_x - pixel_min_x
source_height == pixel_max_y - pixel_min_y

band_size == size[1] * size[2]

BandCountOkFrom2(input_count) == input_count \in 2..4
BandCountOk(input_count) == input_count \in 3..4

result_count_of_bands(input_count, bg) == IF input_count = 4 THEN 4 ELSE 3
result_count_of(input_count, bg) == IF input_count = 4 /\ bg = Alpha THEN 4 ELSE 3
result_count == result_count_of(dataset.raster_count, background)

adj_window_x == Min(Max(window_x, 0), raster_width)
adj_window_y == Min(Max(window_y, 0), raster_height)
adj_source_width == Max(Min(window_x + source_width, raster_width) - adj_window_x, 0)
adj_source_height == Max(Min(window_y + source_height, raster_height) - adj_window_y, 0)

ww == scale_as_usize(size[1], adj_source_width, source_width)
hh == scale_as_usize(size[2], adj_source_height, source_height)

\* The placement offset of one axis: out is size.0 or size.1, win the window
\* origin, adj its clamped value, lo and hi the pixel bounds, raster the raster
\* dimension, src the unclamped source size, read the intermediate size.
\* In the middle branch win < 0 and src >= raster - win > 0, and
\* (0.0 - out * win / src) as usize truncates a non-negative quotient.
offset_strict(out, win, adj, lo, hi, raster, src, read) ==
    IF win = adj THEN 0
    ELSE IF lo < 0 /\ hi > raster THEN (out * (0 - win)) \div src
    ELSE out - read
offset(out, win, adj, lo, hi, raster, src, read) ==
    IF win = adj THEN 0
    ELSE IF lo <= 0 /\ hi >= raster THEN (out * (0 - win)) \div src
    ELSE out - read

off_x == offset(size[1], window_x, adj_window_x, pixel_min_x, pixel_max_x,
                raster_width, source_width, ww)
off_y == offset(size[2], window_y, adj_window_y, pixel_min_y, pixel_max_y,
                raster_height, source_height, hh)

\* vec![...].into_iter().cycle().take(n)
cycle_take(v, n) == [i \in 1..n |-> v[((i - 1) % Len(v)) + 1]]

\* The buffer result_data starts as: the match on (background, result_count).
initial_result_data ==
    IF background.kind = "Rgb" /\ result_count = 4
    THEN cycle_take(<<background.r, background.g, background.b, 255>>,
                    band_size * result_count)
    ELSE IF background.kind = "Rgb" /\ result_count = 3
    THEN cycle_take(<<background.r, background.g, background.b>>,
                    band_size * result_count)
    ELSE [i \in 1..(band_size * result_count) |-> 0]

\* What read_into_slice leaves in a buffer of hh * ww samples: the raster of
\* the model is uniform, so nearest-neighbour resampling yields one value.
filled(v) == [i \in 1..(hh * ww) |-> v]

Panicked == [panic |-> TRUE, data |-> <<>>]
Completed(buf) == [panic |-> FALSE, data |-> buf]

\* The two nested loops over y in 0..size.0.min(hh) and x in 0..size.1.min(ww)
\* for one band, pixel k of them onwards, in the order the code visits them.
\* Buffers are 1-based here; an index past the end of a Vec panics.
RECURSIVE composite_from(_, _, _, _, _)
composite_from(buf, k, band, mask_data, source_band) ==
    LET ny == Min(size[1], hh)
        nx == Min(size[2], ww)
    IN  IF k >= ny * nx THEN Completed(buf)
        ELSE LET y == k \div nx
                 x == k % nx
                 data_index == y * ww + x
                 result_index == ((y + off_y) * size[1] + (x + off_x)) * result_count + band
             IN  IF data_index >= Len(mask_data) THEN Panicked
                 ELSE IF mask_data[data_index + 1] = 0
                 THEN composite_from(buf, k + 1, band, mask_data, source_band)
                 ELSE IF result_index >= Len(buf) \/ data_index >= Len(source_band)
                 THEN Panicked
                 ELSE IF alpha_band = <<>> /\ result_count # 4
                 THEN composite_from([buf EXCEPT ![result_index + 1] =
                                          source_band[data_index + 1]],
                                     k + 1, band, mask_data, source_band)
                 ELSE IF data_index >= Len(alpha_band) THEN Panicked
                 ELSE LET alpha == alpha_band[data_index + 1]
                      IN  composite_from(
                              [buf EXCEPT ![result_index + 1] =
                                   (source_band[data_index + 1] * alpha
                                        + buf[result_index + 1] * (255 - alpha)) \div 255],
                              k + 1, band, mask_data, source_band)

\* The premultiply loop from index i on: i advances by step; each iteration
\* reads result_data[i + 3] and rewrites result_data[i .. i + 2].  The f32
\* product (c * (alpha / 255.0)) as u8 equals the integer quotient for all
\* pairs of bytes.
RECURSIVE premultiply_from(_, _, _)
premultiply_from(buf, i, step) ==
    IF i >= Len(buf) THEN Completed(buf)
    ELSE IF i + 3 >= Len(buf) THEN Panicked
    ELSE LET alpha == buf[i + 4]
         IN  premultiply_from(
                 [buf EXCEPT ![i + 1] = (buf[i + 1] * alpha) \div 255,
                             ![i + 2] = (buf[i + 2] * alpha) \div 255,
                             ![i + 3] = (buf[i + 3] * alpha) \div 255],
                 i + step, step)

premultiply(buf) == premultiply_from(buf, 0, PremultiplyStride)

\* ---- the inputs of a call
\* Rasters: 2 to 5 bands, 2 x 3 pixels, north-up transforms with the origin at
\* (0, 0), every mask sample valid (255) or every mask sample invalid (0).
Datasets ==
    [raster_count : 2..5, raster_size : {<<2, 3>>},
     geo_transform : {<<0, 1, 0, 0, 0, -1>>, <<0, 2, 0, 0, 0, -1>>},
     mask : {0, 255}]

\* Square boxes (tile boxes are square) with integer corners around the
\* raster's extent, min <= max.
BoxesAround(d) ==
    LET xs == (0 - Margin)..(d.raster_size[1] * d.geo_transform[2] + Margin)
        ys == (d.raster_size[2] * d.geo_transform[6] - Margin)..Margin
    IN  {b \in [min_x : xs, max_x : xs, min_y : ys, max_y : ys] :
            /\ b.min_x <= b.max_x
            /\ b.max_x - b.min_x = b.max_y - b.min_y}

Backgrounds == {Alpha, Rgb(255, 0, 128)}

\* A call starts.  A size of 0 comes with the box whose pixel corners are all 0
\* (tile_bounds_to_epsg3857 yields NaN corners for it, and NaN as isize is 0).
ReadInit ==
    /\ PoolInit
    /\ dataset \in Datasets
    /\ size \in {<<n, n>> : n \in 0..MaxSize}
    /\ result_bbox \in BoxesAround(dataset)
    /\ size = <<0, 0>> => result_bbox = [min_x |-> 0, max_x |-> 0, min_y |-> 0, max_y |-> 0]
    /\ background \in Backgrounds
    /\ pc = "start"
    /\ band_index = 0
    /\ alpha_band = <<>>
    /\ result_data = <<>>
    /\ log = <<>>
    /\ result = "none"

Return(r) ==
    /\ pc' = "done"
    /\ result' = r

\* dataset.raster_count() and the matches!(input_count, 3..=4) check.
CheckBandCount ==
    /\ pc = "start"
    /\ log' = Append(log, "raster_count")
    /\ IF BandCountOk(dataset.raster_count)
       THEN pc' = "geo" /\ UNCHANGED result
       ELSE Return("BandCountError")
    /\ UNCHANGED <<dataset, result_bbox, size, background, band_index, alpha_band,
                   result_data>>
    /\ UNCHANGED poolVars

\* dataset.geo_transform()?, the window arithmetic, dataset.raster_size() and
\* the allocation of result_data.
ResolveWindow ==
    /\ pc = "geo"
    /\ \/ /\ log' = Append(log, "geo_transform")
          /\ Return("GdalError")
          /\ UNCHANGED result_data
       \/ /\ log' = log \o <<"geo_transform", "raster_size">>
          /\ result_data' = initial_result_data
          /\ pc' = IF result_count = 4 THEN "alpha" ELSE "band"
          /\ UNCHANGED result
    /\ UNCHANGED <<dataset, result_bbox, size, background, band_index, alpha_band>>
    /\ UNCHANGED poolVars

\* dataset.rasterband(4)?.read_into_slice(...)? into alpha_band.
ReadAlphaBand ==
    /\ pc = "alpha"
    /\ log' = Append(log, "read_band")
    /\ \/ /\ Return("GdalError")
          /\ UNCHANGED alpha_band
       \/ /\ alpha_band' = filled(128)
          /\ pc' = "band"
          /\ UNCHANGED result
    /\ UNCHANGED <<dataset, result_bbox, size, background, band_index, result_data>>
    /\ UNCHANGED poolVars

\* One turn of the loop over band_index: the mask read, the band read, the
\* two nested loops that blend the band into result_data.
CompositeBand ==
    /\ pc = "band"
    /\ \/ /\ log' = Append(log, "read_mask")
          /\ Return("GdalError")
          /\ UNCHANGED <<band_index, result_data>>
       \/ /\ log' = log \o <<"read_mask", "read_band">>
          /\ Return("GdalError")
          /\ UNCHANGED <<band_index, result_data>>
       \/ /\ log' = log \o <<"read_mask", "read_band">>
          /\ LET done == composite_from(result_data, 0, band_index,
                                        filled(dataset.mask), filled(200))
             IN  IF done.panic
                 THEN Return("Panic") /\ UNCHANGED <<band_index, result_data>>
                 ELSE /\ result_data' = done.data
                      /\ band_index' = band_index + 1
                      /\ pc' = IF band_index + 1 < result_count THEN "band" ELSE "premultiply"
                      /\ UNCHANGED result
    /\ UNCHANGED <<dataset, result_bbox, size, background, alpha_band>>
    /\ UNCHANGED poolVars

\* The premultiply block and Ok((result_count == 4, result_data)).
Premultiply ==
    /\ pc = "premultiply"
    /\ IF result_count = 4
       THEN IF premultiply(result_data).panic
            THEN Return("Panic") /\ UNCHANGED result_data
            ELSE Return("Ok") /\ result_data' = premultiply(result_data).data
       ELSE Return("Ok") /\ UNCHANGED result_data
    /\ UNCHANGED <<dataset, result_bbox, size, background, band_index, alpha_band, log>>
    /\ UNCHANGED poolVars

ReadNext ==
    \/ CheckBandCount
    \/ ResolveWindow
    \/ ReadAlphaBand
    \/ CompositeBand
    \/ Premultiply

ReadSpec == ReadInit /\ [][ReadNext]_vars

\* The has_alpha flag of the returned pair.
has_alpha == result_count = 4

\* ------------------------------------------------- claims about the reader
Issued(call) == \E i \in 1..Len(log) : log[i] = call
WindowResolved == Issued("raster_size")

\* C5: on a raster whose band count is not 3 or 4 the call ends with
\* BandCountError, and no geotransform read, band read or mask read is ever
\* issued to the backend, whatever the box, the size and the background.
C5_BandCountFirst ==
    (pc # "idle" /\ dataset.raster_count \notin {3, 4}) =>
        /\ pc \in {"start", "done"}
        /\ pc = "done" => result = "BandCountError"
        /\ ~Issued("geo_transform") /\ ~Issued("read_band") /\ ~Issued("read_mask")

\* A call on a raster of 5 bands has returned BandCountError.
C5_Witness ==
    pc = "done" /\ result = "BandCountError" /\ dataset.raster_count = 5

\* C6: once the window is resolved with a source width or height of zero,
\* the call has ended with a degenerate-window error; it does not go on to
\* the reads and the compositing.
C6_Claim ==
    (WindowResolved /\ (source_width = 0 \/ source_height = 0)) =>
        (pc = "done" /\ result = "DegenerateWindowError")

\* C7: with 4 output channels the premultiply step completes; every pixel's
\* three colour channels become floor(c * alpha / 255) with that pixel's own
\* alpha, and the alpha channel keeps its value.
C7_Claim ==
    [][(pc = "premultiply" /\ result_count = 4) =>
          /\ result' = "Ok"
          /\ Len(result_data') = Len(result_data)
          /\ \A p \in 0..(band_size - 1) :
                /\ result_data'[4 * p + 4] = result_data[4 * p + 4]
                /\ \A c \in 1..3 :
                      result_data'[4 * p + c] =
                          (result_data[4 * p + c] * result_data[4 * p + 4]) \div 255]_vars

\* The channel count the claim prescribes.
ClaimChannels == IF dataset.raster_count = 4 /\ background.kind = "Alpha" THEN 4 ELSE 3

\* C8: a call that returns Ok returns a buffer of exactly
\* width * height * channel_count samples, where channel_count is 4, and
\* has_alpha true, exactly for a 4-band raster with the Alpha background, and
\* 3 otherwise.
C8_BufferLength ==
    (pc = "done" /\ result = "Ok") =>
        /\ has_alpha = (ClaimChannels = 4)
        /\ Len(result_data) = size[1] * size[2] * ClaimChannels

\* A 4-band raster read over an Rgb background returned a 2 x 2 buffer.
C8_Witness ==
    /\ pc = "done" /\ result = "Ok"
    /\ dataset.raster_count = 4 /\ background.kind = "Rgb" /\ size = <<2, 2>>

\* Round to nearest of n / d for n >= 0 and d > 0.
RoundNearest(n, d) == (2 * n + d) \div (2 * d)

\* The three-case rule as the claim states it.
ClaimOffset(out, win, adj, lo, hi, raster, src, read) ==
    IF adj = win THEN 0
    ELSE IF lo <= 0 /\ hi >= raster THEN RoundNearest(out * (0 - win), src)
    ELSE out - read

\* C10 as stated: on each axis the offset is 0, the quotient rounded to
\* nearest, or output size minus intermediate read size.
C10_Claim ==
    WindowResolved =>
        /\ off_x = ClaimOffset(size[1], window_x, adj_window_x, pixel_min_x, pixel_max_x,
                               raster_width, source_width, ww)
        /\ off_y = ClaimOffset(size[2], window_y, adj_window_y, pixel_min_y, pixel_max_y,
                               raster_height, source_height, hh)

\* The rule with the middle case truncated: k is the offset iff
\* k * src <= out * (-win) < (k + 1) * src.
TruncatedRule(k, out, win, adj, lo, hi, raster, src, read) ==
    IF adj = win THEN k = 0
    ELSE IF lo <= 0 /\ hi >= raster
    THEN src > 0 /\ k * src <= out * (0 - win) /\ out * (0 - win) < (k + 1) * src
    ELSE k = out - read

\* C10 (amended): on each axis the offset is 0 when the clamped origin equals
\* the unclamped one; the quotient -out * origin / source size truncated
\* toward zero (not rounded to nearest) when the unclamped window covers the
\* raster on both sides; output size minus intermediate read size otherwise.
C10_OffsetTruncated ==
    WindowResolved =>
        /\ TruncatedRule(off_x, size[1], window_x, adj_window_x, pixel_min_x, pixel_max_x,
                         raster_width, source_width, ww)
        /\ TruncatedRule(off_y, size[2], window_y, adj_window_y, pixel_min_y, pixel_max_y,
                         raster_height, source_height, hh)

\* The window covers the raster on both sides of the x axis and the quotient
\* has a fraction of a half or more: truncation and rounding differ.
C10_Witness ==
    /\ WindowResolved
    /\ window_x # adj_window_x /\ pixel_min_x <= 0 /\ pixel_max_x >= raster_width
    /\ off_x # RoundNearest(size[1] * (0 - window_x), source_width)

\* ---- the indices of the compositing loop
\* Rasters of two shapes with 4 bands (3 or 4 output channels, by the
\* background) and valid masks, under north-up transforms of three pixel shapes.
IndexDatasets ==
    [raster_count : {4}, raster_size : {<<2, 3>>, <<3, 1>>},
     geo_transform : {<<0, 1, 0, 0, 0, -1>>, <<0, 2, 0, 0, 0, -1>>, <<0, 1, 0, 0, 0, -2>>},
     mask : {255}]

\* Every box with integer corners around the raster's extent and min < max on
\* both axes, square or not.
IndexBoxesAround(d) ==
    LET xs == (0 - Margin)..(d.raster_size[1] * d.geo_transform[2] + Margin)
        ys == (d.raster_size[2] * d.geo_transform[6] - Margin)..Margin
    IN  {b \in [min_x : xs, max_x : xs, min_y : ys, max_y : ys] :
            b.min_x < b.max_x /\ b.min_y < b.max_y}

\* A call of read_rgba_from_gdal with any such box and a square output size.
IndexInit ==
    /\ PoolInit
    /\ dataset \in IndexDatasets
    /\ size \in {<<n, n>> : n \in 0..MaxSize}
    /\ result_bbox \in IndexBoxesAround(dataset)
    /\ background \in Backgrounds
    /\ pc = "start"
    /\ band_index = 0
    /\ alpha_band = <<>>
    /\ result_data = <<>>
    /\ log = <<>>
    /\ result = "none"

IndexSpec == IndexInit /\ [][ReadNext]_vars

\* The pixels the loops of a band visit: y in 0..size.0.min(hh) and
\* x in 0..size.1.min(ww).
LoopPixels ==
    {p \in (0..(Min(size[1], hh) - 1)) \X (0..(Min(size[2], ww) - 1)) : TRUE}

\* C11: for a north-up transform, a box with min < max on both axes and a
\* square output size, every index of the compositing loop is in range: the
\* mask/source/alpha index y * ww + x is below hh * ww, the output pixel lies
\* inside the output (x + off_x < width and y + off_y < height), so the output
\* index is below width * height * channel_count for every band, and no band's
\* loop ends the call with an index panic.
C11_IndicesInRange ==
    /\ WindowResolved =>
        \A p \in LoopPixels :
            LET y == p[1]
                x == p[2]
            IN  /\ y * ww + x < hh * ww
                /\ x + off_x < size[1]
                /\ y + off_y < size[2]
                /\ \A band \in 0..(result_count - 1) :
                       ((y + off_y) * size[1] + (x + off_x)) * result_count + band
                           < size[1] * size[2] * result_count
    /\ (pc = "done" /\ result = "Panic") => band_index = result_count

\* A band has been composited from a window that covers the raster on both
\* sides of the x axis: the data is narrower than the output and its pixels
\* were written at a positive offset.
C11_Witness ==
    /\ WindowResolved
    /\ band_index >= 1
    /\ result # "Panic"
    /\ off_x > 0 /\ ww > 0 /\ hh > 0
    /\ result_bbox.min_x < result_bbox.max_x /\ result_bbox.min_y < result_bbox.max_y
    /\ size[1] = size[2]
    /\ LoopPixels # {}

====
